---- MODULE Spec2Model ----
(***************************************************************************)
(* UKG employee lookup worker (src/worker.js).                             *)
(*                                                                         *)
(* One request is handled by the exported fetch handler: API-key gate,     *)
(* parameter parsing, configuration check, then three SOAP calls (login,   *)
(* SSO user lookup, employment information) and the selection of the       *)
(* record that is reported back.                                           *)
(*                                                                         *)
(* XML responses are modelled by the features the handler's regular        *)
(* expressions look at: which blocks are present and the text of the       *)
(* elements that are read.  Name fields (firstName, lastName,              *)
(* clientUserName, ultiProUserName) are copied through by the code and     *)
(* read by no decision; they are left out of the records.                  *)
(***************************************************************************)
EXTENDS Integers, Sequences, FiniteSets, TLC

\* ------------------------------------------------------------------ bounds
\* longest list of user entries inside one SSO response
MaxEntries == 2
\* longest list of identity records handed to the selection step on its own
MaxRecords == 4

\* ------------------------------------------------------------- JS values
\* null / undefined / a header or element that is not there
NoValue == "<none>"

\* a JS value used as a condition: null, undefined and '' are falsy
Falsy(v) == v \in {NoValue, ""}

\* an object without fields
NoFields == [f \in {} |-> NoValue]

\* String.prototype.trim on the texts that occur in the model
trim(s) == IF s = " A " THEN "A" ELSE s

\* names bound at module scope of worker.js (function declarations)
ModuleScope ==
  { "authenticateUKG", "findUserByEmail",
    "getEmploymentInformationByEmployeeIdentifier",
    "parseEmploymentInformationDetailsFromXML", "parseSingleUserFromXML" }

\* evaluating an identifier that is bound nowhere throws a ReferenceError
IsDefined(name) == name \in ModuleScope

\* ---------------------------------------------------------- configuration
WorkerKey == "good-key"

requiredVars_NoBaseUrl ==
  << "UKG_CUSTOMER_API_KEY", "UKG_USER_API_KEY", "UKG_USERNAME",
     "UKG_PASSWORD", "WORKER_API_KEY" >>

requiredVars ==
  << "UKG_CUSTOMER_API_KEY", "UKG_USER_API_KEY", "UKG_USERNAME",
     "UKG_PASSWORD", "UKG_BASE_URL", "WORKER_API_KEY" >>

AllVars ==
  { "UKG_CUSTOMER_API_KEY", "UKG_USER_API_KEY", "UKG_USERNAME",
    "UKG_PASSWORD", "UKG_BASE_URL", "WORKER_API_KEY" }

\* an environment is the set of variables that hold a non-empty value
Envs == SUBSET AllVars

\* env.WORKER_API_KEY
EnvWorkerKey(e) == IF "WORKER_API_KEY" \in e THEN WorkerKey ELSE NoValue

\* first required variable that is missing, in the order of the list
FirstMissing(e) ==
  LET miss == { k \in 1..Len(requiredVars) : requiredVars[k] \notin e }
  IN  IF miss = {} THEN NoValue
      ELSE requiredVars[CHOOSE k \in miss : \A j \in miss : k <= j]

\* ---------------------------------------------------------------- requests
Emails == { "john.doe@example.com" }

\* Authorization header: the text is "Bearer " + cred when bearer is TRUE and
\* cred alone when it is FALSE
AuthHeaders ==
  { [present |-> FALSE, bearer |-> FALSE, cred |-> NoValue],
    [present |-> TRUE,  bearer |-> TRUE,  cred |-> "good-key"],
    [present |-> TRUE,  bearer |-> TRUE,  cred |-> "bad-key"],
    [present |-> TRUE,  bearer |-> FALSE, cred |-> "good-key"] }

\* X-API-Key header: absent, empty, the configured key, another key
XApiKeys == { NoValue, "", "good-key", "bad-key" }

\* method, the email and debug parameters as the method carries them, and
\* whether a POST body is valid JSON
Requests ==
  [ xApiKey : XApiKeys, authorization : AuthHeaders, method : {"GET", "POST"},
    bodyIsJson : {TRUE}, email : Emails \cup {NoValue, ""}, debug : BOOLEAN ]
  \cup
  [ xApiKey : XApiKeys, authorization : AuthHeaders, method : {"POST"},
    bodyIsJson : {FALSE}, email : {NoValue}, debug : {FALSE} ]
  \cup
  [ xApiKey : XApiKeys, authorization : AuthHeaders, method : {"PUT"},
    bodyIsJson : {TRUE}, email : Emails, debug : {TRUE} ]

\* request.headers.get('Authorization')?.replace('Bearer ', ''): the prefix is
\* removed when it is there, the text is kept as it is otherwise
BearerToken(h) == IF h.present THEN h.cred ELSE NoValue

\* request.headers.get('X-API-Key') || ...Authorization...
apiKeyOf(q) ==
  IF ~Falsy(q.xApiKey) THEN q.xApiKey ELSE BearerToken(q.authorization)

Unauthorized_MissingOnly(q, e) == Falsy(apiKeyOf(q))

\* !apiKey || apiKey !== env.WORKER_API_KEY
Unauthorized(q, e) == Falsy(apiKeyOf(q)) \/ apiKeyOf(q) # EnvWorkerKey(e)

\* emailToSearch after the GET / POST branches; other methods leave it unset
emailToSearch(q) == IF q.method \in {"GET", "POST"} THEN q.email ELSE NoValue

\* debugMode after the GET / POST branches; other methods leave it false
debugMode(q) == IF q.method \in {"GET", "POST"} THEN q.debug ELSE FALSE

\* ------------------------------------------------------ backend responses
\* http: "throw" (fetch rejects), "error" (response.ok is false), "ok"

\* LoginService response; token is the text of the <Token> element
LoginDocs ==
  { [http |-> "throw", token |-> NoValue], [http |-> "error", token |-> NoValue],
    [http |-> "error", token |-> "tok-1"] }
  \cup { [http |-> "ok", token |-> t] : t \in {NoValue, "", "tok-1"} }

\* one user entry inside <Results>, possibly with an <EmployeeIdentifier> block
SsoEntries ==
  { [hasEmployeeIdentifier |-> FALSE, companyCode |-> "", employeeNumber |-> "",
     status |-> NoValue],
    [hasEmployeeIdentifier |-> TRUE, companyCode |-> "BPML",
     employeeNumber |-> "100624", status |-> NoValue],
    [hasEmployeeIdentifier |-> TRUE, companyCode |-> "ACME",
     employeeNumber |-> "200", status |-> "0"] }

SeqUpTo(S, n) == UNION { [1..k -> S] : k \in 0..n }

\* EmployeeSsoUser response: the GetSsoUserByClientUserNameResult block, its
\* Success flag, its Results block and the entries inside that block
SsoDocs ==
  { [http |-> h, hasResult |-> FALSE, success |-> NoValue, hasResults |-> FALSE,
     entries |-> <<>>] : h \in {"throw", "error", "ok"} }
  \cup
  { [http |-> "ok", hasResult |-> TRUE, success |-> s, hasResults |-> FALSE,
     entries |-> <<>>] : s \in {NoValue, "true", "false"} }
  \cup
  { [http |-> "ok", hasResult |-> TRUE, success |-> d[1], hasResults |-> TRUE,
     entries |-> d[2]] :
       d \in {NoValue, "true", "false"} \X SeqUpTo(SsoEntries, MaxEntries) }
  \cup
  { [http |-> "error", hasResult |-> TRUE, success |-> "true", hasResults |-> TRUE,
     entries |-> <<en>>] : en \in SsoEntries }

\* EmployeeEmploymentInformation response: the ...Result block, its Success
\* flag, Results, EmploymentInformation, the fields read inside that block,
\* and an EmploymentStatus element elsewhere in the response
EmptyEmpDoc(h) ==
  [http |-> h, hasResult |-> FALSE, success |-> NoValue, hasResults |-> FALSE,
   hasEmploymentInformation |-> FALSE, employmentStatus |-> NoValue,
   hireDate |-> NoValue, jobTitle |-> NoValue, outerEmploymentStatus |-> NoValue]

EmpDocs ==
  { EmptyEmpDoc(h) : h \in {"throw", "error", "ok"} }
  \cup
  { [EmptyEmpDoc("ok") EXCEPT !.hasResult = TRUE, !.success = s] :
      s \in {NoValue, "true", "false"} }
  \cup
  { [EmptyEmpDoc("ok") EXCEPT !.hasResult = TRUE, !.success = s,
                              !.hasResults = TRUE] : s \in {"true"} }
  \cup
  { [EmptyEmpDoc("ok") EXCEPT !.hasResult = TRUE, !.success = d[1],
       !.hasResults = TRUE, !.hasEmploymentInformation = TRUE,
       !.employmentStatus = d[2], !.outerEmploymentStatus = d[3],
       !.hireDate = d[4], !.jobTitle = d[5]] :
      d \in {NoValue, "true", "false"} \X {NoValue, "A", "T", " A "}
            \X {NoValue, "A", "T"} \X {NoValue, "2020-01-15"}
            \X {NoValue, "Analyst"} }
  \cup
  { [EmptyEmpDoc("error") EXCEPT !.hasResult = TRUE, !.success = "true",
       !.hasResults = TRUE, !.hasEmploymentInformation = TRUE,
       !.employmentStatus = "A"] }

\* ---------------------------------------------------------- authenticateUKG
\* the token, or null: fetch threw, !response.ok, or no <Token>text</Token>
authenticateUKG(doc) ==
  IF doc.http = "throw" THEN NoValue
  ELSE IF doc.http # "ok" THEN NoValue
  ELSE IF ~Falsy(doc.token) THEN doc.token
  ELSE NoValue

\* ---------------------------------------------------- parseSingleUserFromXML
\* entries that carry an <EmployeeIdentifier> block, in document order
WithIdentifier(entries) ==
  SelectSeq(entries, LAMBDA en : en.hasEmployeeIdentifier)

\* entries that carry a <Status> element, in document order
WithStatus(entries) == SelectSeq(entries, LAMBDA en : en.status # NoValue)

\* the record built at the end of parseSingleUserFromXML; String.match without
\* the g flag yields the first EmployeeIdentifier and the first Status
SsoUser(entries) ==
  LET ids == WithIdentifier(entries)
      sts == WithStatus(entries)
      st  == IF sts = <<>> THEN "" ELSE trim(sts[1].status)
  IN  [ employeeNumber |-> IF ids = <<>> THEN "" ELSE trim(ids[1].employeeNumber),
        companyCode |-> IF ids = <<>> THEN "" ELSE trim(ids[1].companyCode),
        status |-> IF Falsy(st) THEN "1" ELSE st,
        rawSSOResponse |-> <<>>,
        employmentDetails |-> <<>> ]

\* <<>> stands for null, <<u>> for the user object u
parseSingleUserFromXML(doc) ==
  IF ~doc.hasResult THEN <<>>
  ELSE IF doc.success # NoValue /\ doc.success # "true" THEN <<>>
  ELSE IF ~doc.hasResults THEN <<>>
  ELSE << SsoUser(doc.entries) >>

\* ------------------------------------------------------------ findUserByEmail
findUserByEmail_IgnoreHttpStatus(doc, debug) ==
  IF doc.http = "throw" THEN <<>>
  ELSE LET userResult == parseSingleUserFromXML(doc)
       IN  IF userResult = <<>> THEN <<>>
           ELSE IF debug
                THEN << [userResult[1] EXCEPT !.rawSSOResponse = <<doc>>] >>
                ELSE userResult

findUserByEmail(doc, debug) ==
  IF doc.http = "throw" THEN <<>>
  ELSE IF doc.http # "ok" THEN <<>>
  ELSE LET userResult == parseSingleUserFromXML(doc)
       IN  IF userResult = <<>> THEN <<>>
           ELSE IF debug
                THEN << [userResult[1] EXCEPT !.rawSSOResponse = <<doc>>] >>
                ELSE userResult

\* ------------------------------- parseEmploymentInformationDetailsFromXML
\* an employment-details object; <<>> in a field stands for a missing key
NoDetails ==
  [ employmentStatus |-> NoValue, hireDate |-> NoValue, jobTitle |-> NoValue,
    rawResponse |-> <<>>, fullResponse |-> <<>>, rawEmploymentData |-> <<>>,
    noEmploymentInfoFound |-> FALSE, error |-> FALSE ]

\* extractFieldValue inside the EmploymentInformation block: the trimmed text,
\* kept only when it is not empty
FieldOf(text) == IF Falsy(text) \/ Falsy(trim(text)) THEN NoValue ELSE trim(text)

\* fields.employmentStatus: the field of the block, else the first
\* EmploymentStatus element of the whole response
employmentStatusOf_OuterFirst(doc) ==
  IF ~Falsy(doc.outerEmploymentStatus) THEN trim(doc.outerEmploymentStatus)
  ELSE FieldOf(doc.employmentStatus)

employmentStatusOf(doc) ==
  IF FieldOf(doc.employmentStatus) # NoValue THEN FieldOf(doc.employmentStatus)
  ELSE IF ~Falsy(doc.outerEmploymentStatus) THEN trim(doc.outerEmploymentStatus)
  ELSE NoValue

\* <<>> stands for null.  In debug mode the call of extractAllFieldsFromBlock
\* throws (the name is bound nowhere) and the catch clause returns null.
parseEmploymentInformationDetailsFromXML(doc, debug) ==
  IF ~doc.hasResult THEN <<>>
  ELSE IF doc.success # NoValue /\ doc.success # "true" THEN <<>>
  ELSE IF ~doc.hasResults THEN <<>>
  ELSE IF ~doc.hasEmploymentInformation THEN <<>>
  ELSE IF debug /\ ~IsDefined("extractAllFieldsFromBlock") THEN <<>>
  ELSE << [ NoDetails EXCEPT
              !.employmentStatus = employmentStatusOf(doc),
              !.hireDate = FieldOf(doc.hireDate),
              !.jobTitle = FieldOf(doc.jobTitle),
              !.rawEmploymentData = IF debug THEN <<doc>> ELSE <<>>,
              !.rawResponse = <<doc>> ] >>

\* ------------------------------ getEmploymentInformationByEmployeeIdentifier
getEmploymentInformationByEmployeeIdentifier(doc, debug) ==
  IF doc.http = "throw"
  THEN IF debug THEN << [NoDetails EXCEPT !.error = TRUE] >> ELSE <<>>
  ELSE IF doc.http # "ok" THEN <<>>
  ELSE LET result == parseEmploymentInformationDetailsFromXML(doc, debug)
       IN  IF result # <<>>
           THEN IF debug THEN << [result[1] EXCEPT !.fullResponse = <<doc>>] >>
                ELSE result
           ELSE IF debug
                THEN << [NoDetails EXCEPT !.noEmploymentInfoFound = TRUE,
                                          !.rawResponse = <<doc>>] >>
                ELSE <<>>

IsActive_AnyDetails(record) == record.employmentDetails # <<>>

\* ------------------------------------------------- selection of the record
\* the filter predicate of activeRecords
IsActive(record) ==
  /\ record.employmentDetails # <<>>
  /\ record.employmentDetails[1].employmentStatus = "A"

\* activeRecords, as the positions of its elements in userRecords (the code
\* compares records by object identity)
activeRecords(records) ==
  SelectSeq([k \in 1..Len(records) |-> k], LAMBDA k : IsActive(records[k]))

primaryOf_First(active) == active[1]

\* primaryRecord = activeRecords[activeRecords.length - 1]
primaryOf(active) == active[Len(active)]

\* employmentStatus of one entry of allRecordsBasicInfo
statusLabel(record) ==
  IF record.employmentDetails = <<>> THEN "UNKNOWN"
  ELSE LET st == record.employmentDetails[1].employmentStatus
       IN  IF st = "A" THEN "ACTIVE"
           ELSE IF st = "T" THEN "TERMINATED"
           ELSE IF Falsy(st) THEN "UNKNOWN" ELSE st

\* primaryRecord._debugAllRecordsInfo
debugAllRecordsInfo(records, active, p, debug) ==
  [ totalRecordCount |-> Len(records),
    activeRecordCount |-> Len(active),
    selectedRecord |-> "LAST active record",
    allRecordsBasicInfo |->
      [ k \in 1..Len(records) |->
          [ employeeNumber |-> records[k].employeeNumber,
            companyCode |-> records[k].companyCode,
            status |-> records[k].status,
            hasEmploymentDetails |-> records[k].employmentDetails # <<>>,
            employmentStatus |-> statusLabel(records[k]),
            rawEmploymentStatus |->
              IF records[k].employmentDetails = <<>> THEN NoValue
              ELSE records[k].employmentDetails[1].employmentStatus,
            isSelected |-> (k = p),
            employmentDetailsRaw |->
              IF debug /\ records[k].employmentDetails # <<>>
              THEN records[k].employmentDetails[1].rawResponse ELSE <<>> ] ],
    activeRecordsOnly |->
      [ j \in 1..Len(active) |->
          [ employeeNumber |-> records[active[j]].employeeNumber,
            companyCode |-> records[active[j]].companyCode,
            employmentStatus |-> "ACTIVE",
            rawEmploymentStatus |->
              records[active[j]].employmentDetails[1].employmentStatus,
            isSelected |-> (active[j] = p) ] ] ]

\* the primary record with its bookkeeping attached (userInfo after line 166)
canonicalRecord(records, debug) ==
  LET active == activeRecords(records)
      p      == primaryOf(active)
  IN  [ index |-> p,
        employeeNumber |-> records[p].employeeNumber,
        companyCode |-> records[p].companyCode,
        status |-> records[p].status,
        rawSSOResponse |-> records[p].rawSSOResponse,
        employmentDetails |-> records[p].employmentDetails,
        debugAllRecordsInfo |-> debugAllRecordsInfo(records, active, p, debug) ]

\* ------------------------------------------------------------------ responses
UnauthorizedResponse ==
  [ status |-> 401,
    body |-> [ error |-> "Unauthorized - Invalid or missing API key",
               code |-> "INVALID_API_KEY" ] ]

EmailRequiredResponse ==
  [ status |-> 400, body |-> [ error |-> "Email parameter is required" ] ]

MissingVariableResponse(varName) ==
  [ status |-> 500,
    body |-> [ error |-> "Missing environment variable", variable |-> varName ] ]

\* the catch clause of the handler
InternalErrorResponse(message) ==
  [ status |-> 500,
    body |-> [ error |-> "Internal server error", details |-> message ] ]

\* the response for a failed login: its headers spread corsHeaders, a name
\* bound nowhere, so building it throws and the catch clause answers
AuthFailureResponse ==
  IF IsDefined("corsHeaders")
  THEN [ status |-> 401,
         body |-> [ error |-> "Failed to authenticate with UKG API" ] ]
  ELSE InternalErrorResponse("corsHeaders is not defined")

NoActiveResponse_ActiveCount(records, email) ==
  [ status |-> 404,
    body |-> [ success |-> FALSE,
               error |-> "No active employee records found",
               totalRecords |-> Len(activeRecords(records)),
               email |-> email,
               details |-> "All employee records found are terminated or inactive" ] ]

NoActiveResponse(records, email) ==
  [ status |-> 404,
    body |-> [ success |-> FALSE,
               error |-> "No active employee records found",
               totalRecords |-> Len(records),
               email |-> email,
               details |-> "All employee records found are terminated or inactive" ] ]

NotFoundResponse_DefaultStatus(email) ==
  [ status |-> 200,
    body |-> [ success |-> FALSE, error |-> "User not found", email |-> email ] ]


NotFoundResponse(email) ==
  [ status |-> 404,
    body |-> [ success |-> FALSE, error |-> "User not found", email |-> email ] ]

\* the note about several records; counts stand for the interpolated text
noteOf(info, withDetails) ==
  IF info.totalRecordCount > 1
  THEN [ note |-> [ detailed |-> withDetails,
                    activeRecordCount |-> info.activeRecordCount,
                    totalRecordCount |-> info.totalRecordCount ] ]
  ELSE NoFields

\* fields added to the body in debug mode
debugFields(userInfo) ==
  LET info == userInfo.debugAllRecordsInfo
  IN  [ debugModeEnabled |-> TRUE,
        debugAllRecords |-> info.allRecordsBasicInfo,
        debugActiveRecords |-> info.activeRecordsOnly,
        debugTotalRecordCount |-> info.totalRecordCount,
        debugActiveRecordCount |-> info.activeRecordCount,
        debugSelectedRecord |-> info.selectedRecord,
        debugMultipleRecordsFound |-> (info.totalRecordCount > 1),
        debugAllEmploymentDetails |->
          LET withDetails == SelectSeq(info.allRecordsBasicInfo,
                                       LAMBDA b : b.hasEmploymentDetails)
          IN  [ j \in 1..Len(withDetails) |->
                  [ companyCode |-> withDetails[j].companyCode,
                    employeeNumber |-> withDetails[j].employeeNumber,
                    employmentStatus |-> withDetails[j].employmentStatus,
                    rawResponse |-> withDetails[j].employmentDetailsRaw ] ] ]
      @@ (IF userInfo.rawSSOResponse # <<>>
          THEN [ rawSSOResponse |-> userInfo.rawSSOResponse[1] ] ELSE NoFields)
      @@ (IF userInfo.employmentDetails # <<>>
          THEN [ debugEmploymentDetails |-> userInfo.employmentDetails[1] ]
          ELSE NoFields)

\* the response for a selected record
FoundResponse(userInfo, email, debug) ==
  [ status |-> 200,
    body |->
      [ success |-> TRUE,
        employeeNumber |-> userInfo.employeeNumber,
        companyCode |-> userInfo.companyCode,
        status |-> userInfo.status,
        email |-> email ]
      @@ (IF userInfo.employmentDetails # <<>>
          THEN [ employmentStatus |-> "ACTIVE",
                 employmentStatusReason |-> "Employment status: A (Active)",
                 dataSource |-> "SSO + EmployeeEmploymentInformation Services" ]
               @@ (IF ~Falsy(userInfo.employmentDetails[1].hireDate)
                   THEN [ hireDate |-> userInfo.employmentDetails[1].hireDate ]
                   ELSE NoFields)
               @@ (IF ~Falsy(userInfo.employmentDetails[1].jobTitle)
                   THEN [ jobTitle |-> userInfo.employmentDetails[1].jobTitle ]
                   ELSE NoFields)
               @@ noteOf(userInfo.debugAllRecordsInfo, TRUE)
          ELSE [ employmentStatus |->
                   "Active (assumed - no employment details available)",
                 dataSource |-> "SSO Service Only" ]
               @@ noteOf(userInfo.debugAllRecordsInfo, FALSE))
      @@ (IF debug THEN debugFields(userInfo) ELSE NoFields) ]

\* ---------------------------------------------------------- extractFieldValue
\* most elements in a block handed to extractFieldValue
MaxElems == 2

\* a block is the sequence of its text elements <prefix:Name>text</prefix:Name>,
\* in document order; prefix "" is a bare tag
Prefixes == {"", "b", "ns"}

ElemNames == {"Status", "STATUS", "Title"}

ElemTexts == {"", " A ", "T"}

Elements == [ prefix : Prefixes, name : ElemNames, text : ElemTexts ]

Blocks == SeqUpTo(Elements, MaxElems)

\* field names the parsers ask for
FieldNames == {"status", "title"}

\* fieldName.charAt(0).toUpperCase() + fieldName.slice(1)
capitalizedField(fieldName) ==
  IF fieldName = "status" THEN "Status"
  ELSE IF fieldName = "title" THEN "Title"
  ELSE fieldName

\* the 'i' flag of the patterns: tag names are compared without case
FoldCase(name) ==
  IF name \in {"Status", "STATUS", "status"} THEN "status"
  ELSE IF name \in {"Title", "TITLE", "title"} THEN "title"
  ELSE name

\* data.match(pattern) for the pattern <prefix:Name>([^<]*)</prefix:Name>
\* without 'g': the capture group of the first match from position k on, as
\* <<text>>, or <<>> for null
RECURSIVE match(_, _, _, _)
match(data, prefix, tagName, k) ==
  IF k > Len(data) THEN <<>>
  ELSE IF data[k].prefix = prefix /\ FoldCase(data[k].name) = FoldCase(tagName)
       THEN << data[k].text >>
       ELSE match(data, prefix, tagName, k + 1)

\* extractFieldValue of parseEmploymentInformationDetailsFromXML (default
\* null) and of parseSingleUserFromXML (default ''): the b: form is tried
\* first, the bare form only when the b: form matched nothing
extractFieldValue(data, fieldName, default) ==
  LET tagName == capitalizedField(fieldName)
      prefixed == match(data, "b", tagName, 1)
      found == IF prefixed = <<>> THEN match(data, "", tagName, 1) ELSE prefixed
  IN  IF found # <<>> /\ found[1] # "" THEN trim(found[1]) ELSE default

\* no extraction under way
NoExtract ==
  [ data |-> <<>>, fieldName |-> NoValue, alt |-> <<>>, applied |-> FALSE,
    value |-> NoValue, ssoValue |-> NoValue,
    altValue |-> NoValue, altSsoValue |-> NoValue ]

\* the blocks that differ from data only in the prefixes of their tags
Reprefixed(data) ==
  { [ k \in 1..Len(data) |-> [ data[k] EXCEPT !.prefix = p[k] ] ] :
      p \in [ 1..Len(data) -> Prefixes ] }

\* ---------------------------------------------------------------------- state
VARIABLES
  env,            \* the configuration: names of the variables that are set
  backend,        \* what the HR backend has answered so far, per call target
  req,            \* req[r]: the inbound request r
  pc,             \* pc[r]: where the handler of request r stands
  token,          \* token[r]: the token returned by authenticateUKG
  userRecords,    \* userRecords[r]: the records from findUserByEmail
  i,              \* i[r]: the loop index over userRecords
  primaryRecord,  \* primaryRecord[r]: <<>> or the selected record
  response,       \* response[r]: the responses returned for r, in order
  calls,          \* calls[r]: the outbound SOAP calls made for r, in order
  extract         \* one application of extractFieldValue: input and result

vars ==
  << env, backend, req, pc, token, userRecords, i, primaryRecord, response,
     calls, extract >>

\* (companyCode, employeeNumber) pairs an employment call can name
Identities == { << en.companyCode, en.employeeNumber >> : en \in SsoEntries }

\* the backend answers a repeated call as it answered the first one
Reply(slot, Docs) == IF slot = <<>> THEN Docs ELSE { slot[1] }

InitFor(ids, requests) ==
  /\ env \in Envs
  /\ backend = [ login |-> <<>>,
                 sso |-> [ m \in Emails |-> <<>> ],
                 emp |-> [ id \in Identities |-> <<>> ] ]
  /\ req \in requests
  /\ pc = [ r \in ids |-> "start" ]
  /\ token = [ r \in ids |-> NoValue ]
  /\ userRecords = [ r \in ids |-> <<>> ]
  /\ i = [ r \in ids |-> 0 ]
  /\ primaryRecord = [ r \in ids |-> <<>> ]
  /\ response = [ r \in ids |-> <<>> ]
  /\ calls = [ r \in ids |-> <<>> ]
  /\ extract = NoExtract

\* one request
Init == InitFor({1}, [ {1} -> Requests ])

\* the handler returns resp
Return(r, resp) ==
  /\ response' = [response EXCEPT ![r] = Append(@, resp)]
  /\ pc' = [pc EXCEPT ![r] = "done"]

Gate_NoCatch(r) ==
  /\ pc[r] = "start"
  /\ IF Unauthorized(req[r], env)
       THEN Return(r, UnauthorizedResponse)
     ELSE IF req[r].method = "POST" /\ ~req[r].bodyIsJson
       THEN /\ pc' = [pc EXCEPT ![r] = "threw"]
            /\ UNCHANGED response
     ELSE IF Falsy(emailToSearch(req[r]))
       THEN Return(r, EmailRequiredResponse)
     ELSE IF FirstMissing(env) # NoValue
       THEN Return(r, MissingVariableResponse(FirstMissing(env)))
     ELSE /\ pc' = [pc EXCEPT ![r] = "login"]
          /\ UNCHANGED response
  /\ UNCHANGED << extract, env, backend, req, token, userRecords, i, primaryRecord, calls >>

\* lines 15-64: API-key gate, parameters, configuration
Gate(r) ==
  /\ pc[r] = "start"
  /\ IF Unauthorized(req[r], env)
       THEN Return(r, UnauthorizedResponse)
     ELSE IF req[r].method = "POST" /\ ~req[r].bodyIsJson
       THEN Return(r, InternalErrorResponse("Unexpected token in JSON"))
     ELSE IF Falsy(emailToSearch(req[r]))
       THEN Return(r, EmailRequiredResponse)
     ELSE IF FirstMissing(env) # NoValue
       THEN Return(r, MissingVariableResponse(FirstMissing(env)))
     ELSE /\ pc' = [pc EXCEPT ![r] = "login"]
          /\ UNCHANGED response
  /\ UNCHANGED << extract, env, backend, req, token, userRecords, i, primaryRecord, calls >>

Authenticate_NoTokenCheck(r) ==
  /\ pc[r] = "login"
  /\ \E doc \in Reply(backend.login, LoginDocs) :
       /\ backend' = [backend EXCEPT !.login = <<doc>>]
       /\ calls' = [calls EXCEPT ![r] =
                      Append(@, [op |-> "login", token |-> NoValue, id |-> <<>>])]
       /\ token' = [token EXCEPT ![r] = authenticateUKG(doc)]
       /\ pc' = [pc EXCEPT ![r] = "sso"]
       /\ UNCHANGED response
  /\ UNCHANGED << extract, env, req, userRecords, i, primaryRecord >>

\* lines 66-75: the login call
Authenticate(r) ==
  /\ pc[r] = "login"
  /\ \E doc \in Reply(backend.login, LoginDocs) :
       /\ backend' = [backend EXCEPT !.login = <<doc>>]
       /\ calls' = [calls EXCEPT ![r] =
                      Append(@, [op |-> "login", token |-> NoValue, id |-> <<>>])]
       /\ token' = [token EXCEPT ![r] = authenticateUKG(doc)]
       /\ IF Falsy(authenticateUKG(doc))
            THEN Return(r, AuthFailureResponse)
            ELSE /\ pc' = [pc EXCEPT ![r] = "sso"]
                 /\ UNCHANGED response
  /\ UNCHANGED << extract, env, req, userRecords, i, primaryRecord >>

\* lines 77-85: the identity call
FindUser(r) ==
  /\ pc[r] = "sso"
  /\ \E doc \in Reply(backend.sso[emailToSearch(req[r])], SsoDocs) :
       /\ backend' = [backend EXCEPT !.sso[emailToSearch(req[r])] = <<doc>>]
       /\ calls' = [calls EXCEPT ![r] =
                      Append(@, [op |-> "sso", token |-> token[r], id |-> <<>>])]
       /\ userRecords' = [userRecords EXCEPT ![r] =
                            findUserByEmail(doc, debugMode(req[r]))]
  /\ i' = [i EXCEPT ![r] = 1]
  /\ pc' = [pc EXCEPT ![r] = "loop"]
  /\ UNCHANGED << extract, env, req, token, primaryRecord, response >>

Employment_AbortOnFailure(r) ==
  /\ pc[r] = "loop"
  /\ i[r] <= Len(userRecords[r])
  /\ LET record == userRecords[r][i[r]]
         id == << record.companyCode, record.employeeNumber >>
     IN  \E doc \in Reply(backend.emp[id], EmpDocs) :
           LET employmentResult ==
                 getEmploymentInformationByEmployeeIdentifier(doc, debugMode(req[r]))
           IN  /\ backend' = [backend EXCEPT !.emp[id] = <<doc>>]
               /\ calls' = [calls EXCEPT ![r] =
                    Append(@, [op |-> "employment", token |-> token[r],
                               id |-> <<id>>])]
               /\ userRecords' =
                    IF employmentResult # <<>>
                    THEN [userRecords EXCEPT
                            ![r][i[r]].employmentDetails = employmentResult]
                    ELSE userRecords
               /\ IF doc.http = "throw"
                    THEN Return(r, InternalErrorResponse("fetch failed"))
                    ELSE UNCHANGED << pc, response >>
  /\ i' = [i EXCEPT ![r] = @ + 1]
  /\ UNCHANGED << extract, env, req, token, primaryRecord >>

\* lines 88-106: one round of the loop, the employment call for record i
Employment(r) ==
  /\ pc[r] = "loop"
  /\ i[r] <= Len(userRecords[r])
  /\ LET record == userRecords[r][i[r]]
         id == << record.companyCode, record.employeeNumber >>
     IN  \E doc \in Reply(backend.emp[id], EmpDocs) :
           LET employmentResult ==
                 getEmploymentInformationByEmployeeIdentifier(doc, debugMode(req[r]))
           IN  /\ backend' = [backend EXCEPT !.emp[id] = <<doc>>]
               /\ calls' = [calls EXCEPT ![r] =
                    Append(@, [op |-> "employment", token |-> token[r],
                               id |-> <<id>>])]
               /\ userRecords' =
                    IF employmentResult # <<>>
                    THEN [userRecords EXCEPT
                            ![r][i[r]].employmentDetails = employmentResult]
                    ELSE userRecords
  /\ i' = [i EXCEPT ![r] = @ + 1]
  /\ UNCHANGED << extract, env, req, pc, token, primaryRecord, response >>

\* lines 108-261: selection of the primary record and the response
Respond(r) ==
  /\ pc[r] = "loop"
  /\ i[r] > Len(userRecords[r])
  /\ IF userRecords[r] = <<>>
       THEN /\ Return(r, NotFoundResponse(emailToSearch(req[r])))
            /\ UNCHANGED primaryRecord
     ELSE IF activeRecords(userRecords[r]) = <<>>
       THEN /\ Return(r, NoActiveResponse(userRecords[r], emailToSearch(req[r])))
            /\ UNCHANGED primaryRecord
     ELSE LET userInfo == canonicalRecord(userRecords[r], debugMode(req[r]))
          IN  /\ primaryRecord' = [primaryRecord EXCEPT ![r] = <<userInfo>>]
              /\ Return(r, FoundResponse(userInfo, emailToSearch(req[r]),
                                         debugMode(req[r])))
  /\ UNCHANGED << extract, env, backend, req, token, userRecords, i, calls >>

Next ==
  \/ \E r \in DOMAIN pc : Gate(r)
  \/ \E r \in DOMAIN pc : Authenticate(r)
  \/ \E r \in DOMAIN pc : FindUser(r)
  \/ \E r \in DOMAIN pc : Employment(r)
  \/ \E r \in DOMAIN pc : Respond(r)

Spec == Init /\ [][Next]_vars

\* ------------------------------------------------ two requests, one backend
\* the same request sent twice, request 1 without and request 2 with the debug
\* flag; both handlers run against the same backend answers
PairRequests ==
  { [ r \in {1, 2} |-> [q EXCEPT !.debug = (r = 2)] ] :
      q \in { x \in Requests : [x EXCEPT !.debug = TRUE] \in Requests } }

InitPair == InitFor({1, 2}, PairRequests)

SpecPair == InitPair /\ [][Next]_vars

\* ------------------------------------------------ the selection step alone
\* employment answers used to annotate the records handed to the selection
SelectionEmpDocs ==
  { EmptyEmpDoc("throw"), EmptyEmpDoc("ok") }
  \cup
  { [EmptyEmpDoc("ok") EXCEPT !.hasResult = TRUE, !.success = "true",
       !.hasResults = TRUE, !.hasEmploymentInformation = TRUE,
       !.employmentStatus = st] : st \in {NoValue, "A", "T"} }

\* the records findUserByEmail and one round of the loop can produce
AnnotatedRecords(debug) ==
  { [u[1] EXCEPT !.employmentDetails =
       getEmploymentInformationByEmployeeIdentifier(d, debug)] :
      u \in { findUserByEmail(
                [http |-> "ok", hasResult |-> TRUE, success |-> "true",
                 hasResults |-> TRUE, entries |-> <<en>>], debug) :
                en \in { x \in SsoEntries : x.hasEmployeeIdentifier } },
      d \in SelectionEmpDocs }

\* the handler stands after the loop with any list of 1..MaxRecords records
InitSelection ==
  /\ env = AllVars
  /\ backend = [ login |-> <<>>,
                 sso |-> [ m \in Emails |-> <<>> ],
                 emp |-> [ id \in Identities |-> <<>> ] ]
  /\ req \in [ {1} -> { q \in Requests :
                          /\ q.method = "GET" /\ q.xApiKey = WorkerKey
                          /\ ~q.authorization.present /\ q.email \in Emails } ]
  /\ pc = [ r \in {1} |-> "loop" ]
  /\ token = [ r \in {1} |-> "tok-1" ]
  /\ userRecords \in
       [ {1} -> UNION { [1..n -> AnnotatedRecords(debugMode(req[1]))] :
                          n \in 1..MaxRecords } ]
  /\ i = [ r \in {1} |-> Len(userRecords[r]) + 1 ]
  /\ primaryRecord = [ r \in {1} |-> <<>> ]
  /\ response = [ r \in {1} |-> <<>> ]
  /\ calls = [ r \in {1} |-> <<>> ]
  /\ extract = NoExtract

NextSelection == \E r \in DOMAIN pc : Respond(r)

SpecSelection == InitSelection /\ [][NextSelection]_vars

\* ------------------------------------------------------ the loop and after
\* employment answers used when the loop runs over several records
LoopEmpDocs == SelectionEmpDocs \cup { EmptyEmpDoc("error") }

\* the records findUserByEmail can produce for an entry with an identifier
LoopUsers(debug) ==
  { findUserByEmail(
      [http |-> "ok", hasResult |-> TRUE, success |-> "true",
       hasResults |-> TRUE, entries |-> <<en>>], debug)[1] :
      en \in { x \in SsoEntries : x.hasEmployeeIdentifier } }

\* the handler stands before the loop with any list of 1..MaxRecords records;
\* login and identity call are behind it, the employment answers are fixed
InitLoop ==
  /\ env = AllVars
  /\ backend \in
       { [ login |-> << [http |-> "ok", token |-> "tok-1"] >>,
           sso |-> [ m \in Emails |-> <<>> ],
           emp |-> [ id \in Identities |->
                       IF id = << "", "" >> THEN <<>> ELSE << f[id] >> ] ] :
           f \in [ Identities -> LoopEmpDocs ] }
  /\ req \in [ {1} -> { q \in Requests :
                          /\ q.method = "GET" /\ q.xApiKey = WorkerKey
                          /\ ~q.authorization.present /\ q.email \in Emails } ]
  /\ pc = [ r \in {1} |-> "loop" ]
  /\ token = [ r \in {1} |-> "tok-1" ]
  /\ userRecords \in
       [ {1} -> UNION { [1..n -> LoopUsers(debugMode(req[1]))] :
                          n \in 1..MaxRecords } ]
  /\ i = [ r \in {1} |-> 1 ]
  /\ primaryRecord = [ r \in {1} |-> <<>> ]
  /\ response = [ r \in {1} |-> <<>> ]
  /\ calls = [ r \in {1} |->
                 << [op |-> "login", token |-> NoValue, id |-> <<>>],
                    [op |-> "sso", token |-> "tok-1", id |-> <<>>] >> ]
  /\ extract = NoExtract

NextLoop ==
  \/ \E r \in DOMAIN pc : Employment(r)
  \/ \E r \in DOMAIN pc : Respond(r)

SpecLoop == InitLoop /\ [][NextLoop]_vars


\* ------------------------------------------ extractFieldValue on its own
\* a block and a field name; no request is under way
InitExtract ==
  /\ env = AllVars
  /\ backend = [ login |-> <<>>,
                 sso |-> [ m \in Emails |-> <<>> ],
                 emp |-> [ id \in Identities |-> <<>> ] ]
  /\ req = <<>> /\ pc = <<>> /\ token = <<>> /\ userRecords = <<>>
  /\ i = <<>> /\ primaryRecord = <<>> /\ response = <<>> /\ calls = <<>>
  /\ extract \in { [ NoExtract EXCEPT !.data = d, !.fieldName = f ] :
                     d \in Blocks, f \in FieldNames }

\* both variants of extractFieldValue applied to the block and to a block
\* that differs from it only in prefixes
Extract ==
  /\ ~extract.applied
  /\ \E alt \in Reprefixed(extract.data) :
       extract' =
         [ extract EXCEPT
             !.applied = TRUE,
             !.alt = alt,
             !.value = extractFieldValue(extract.data, extract.fieldName, NoValue),
             !.ssoValue = extractFieldValue(extract.data, extract.fieldName, ""),
             !.altValue = extractFieldValue(alt, extract.fieldName, NoValue),
             !.altSsoValue = extractFieldValue(alt, extract.fieldName, "") ]
  /\ UNCHANGED << env, backend, req, pc, token, userRecords, i, primaryRecord,
                  response, calls >>

NextExtract == Extract

SpecExtract == InitExtract /\ [][NextExtract]_vars

\* ------------------------------------------------------------------- claims
Done(r) == pc[r] = "done"

\* the response returned for r
Resp(r) == response[r][1]

Made(r, op) == \E k \in 1..Len(calls[r]) : calls[r][k].op = op

\* the login answer makes the login call fail
LoginFails(doc) == doc.http # "ok" \/ doc.token \in {NoValue, ""}

\* the success field of a body, "absent" when the body has none
SuccessOf(body) ==
  IF "success" \in DOMAIN body
  THEN (IF body.success THEN "true" ELSE "false") ELSE "absent"

\* the request carries the configured worker key in one of its two headers
CarriesWorkerKey(q, e) ==
  /\ "WORKER_API_KEY" \in e
  /\ \/ q.xApiKey = WorkerKey
     \/ q.authorization.present /\ q.authorization.cred = WorkerKey

\* the request passes the gate as far as key and email are concerned
ValidKeyAndEmail(q, e) ==
  /\ "WORKER_API_KEY" \in e
  /\ \/ q.xApiKey = WorkerKey
     \/ q.xApiKey \in {NoValue, ""} /\ q.authorization.present
                                    /\ q.authorization.cred = WorkerKey
  /\ q.method \in {"GET", "POST"} /\ q.bodyIsJson /\ q.email \in Emails

\* the SSO answer holds exactly one well-formed entry for the identity id
ResolvesOne(doc, id) ==
  /\ doc.http = "ok" /\ doc.hasResult /\ doc.success = "true" /\ doc.hasResults
  /\ Len(doc.entries) = 1 /\ doc.entries[1].hasEmployeeIdentifier
  /\ id = << doc.entries[1].companyCode, doc.entries[1].employeeNumber >>

\* the employment answer is well formed and reports status "A"
ReportsActive(doc) ==
  /\ doc.http = "ok" /\ doc.hasResult /\ doc.success = "true" /\ doc.hasResults
  /\ doc.hasEmploymentInformation /\ doc.employmentStatus = "A"

\* request r without debug, login succeeded, one identity, employment "A"
ActiveScenario(r, id) ==
  /\ Done(r) /\ ~debugMode(req[r])
  /\ Made(r, "sso") /\ backend.sso[req[r].email] # <<>>
  /\ ResolvesOne(backend.sso[req[r].email][1], id)
  /\ Made(r, "employment") /\ backend.emp[id] # <<>>
  /\ ReportsActive(backend.emp[id][1])

\* positions of the records whose attached details say "A"
ActivePositions(records) ==
  { k \in 1..Len(records) :
      /\ records[k].employmentDetails # <<>>
      /\ records[k].employmentDetails[1].employmentStatus = "A" }

Greatest(S) == CHOOSE k \in S : \A j \in S : j <= k

\* C1: whenever the login call fails (transport error, HTTP status not a
\* success, no Token element) the handler answers 401 and makes no identity
\* or employment call.
C1_LoginFailureIs401 ==
  \A r \in DOMAIN pc :
    (Done(r) /\ Made(r, "login") /\ LoginFails(backend.login[1]))
      => /\ Resp(r).status = 401
         /\ ~Made(r, "sso") /\ ~Made(r, "employment")

\* C2: debug mode never changes the outcome: the same request against the
\* same backend answers gets the same HTTP status and the same success value
\* with and without debug.
C2_DebugKeepsOutcome ==
  (Done(1) /\ Done(2))
    => /\ Resp(1).status = Resp(2).status
       /\ SuccessOf(Resp(1).body) = SuccessOf(Resp(2).body)

\* C3: login succeeds, the email resolves to one identity (N, C), the
\* employment lookup for (C, N) reports "A" and debug is off: the answer is
\* 200 with success, employeeNumber N, companyCode C, employmentStatus
\* "ACTIVE" and the queried email.
C3_ActiveIdentityFound ==
  \A r \in DOMAIN pc : \A id \in Identities :
    ActiveScenario(r, id)
      => /\ Resp(r).status = 200
         /\ Resp(r).body.success = TRUE
         /\ Resp(r).body.companyCode = id[1]
         /\ Resp(r).body.employeeNumber = id[2]
         /\ Resp(r).body.employmentStatus = "ACTIVE"
         /\ Resp(r).body.email = req[r].email

C3_Witness ==
  \E r \in DOMAIN pc :
    /\ ActiveScenario(r, << "BPML", "100624" >>)
    /\ Resp(r).status = 200

\* C4: with at least one active record the selection takes the last record,
\* in order, whose status is "A"; totalRecordCount is the number of records,
\* activeRecordCount the number of active ones, and exactly one record is
\* marked isSelected.
C4_LastActiveSelected ==
  \A r \in DOMAIN pc :
    (Done(r) /\ ActivePositions(userRecords[r]) # {})
      => LET last == Greatest(ActivePositions(userRecords[r]))
         IN  /\ primaryRecord[r] # <<>>
             /\ LET p    == primaryRecord[r][1]
                    info == p.debugAllRecordsInfo
                IN  /\ p.index = last
                    /\ p.employeeNumber = userRecords[r][last].employeeNumber
                    /\ p.companyCode = userRecords[r][last].companyCode
                    /\ info.totalRecordCount = Len(userRecords[r])
                    /\ info.activeRecordCount =
                         Cardinality(ActivePositions(userRecords[r]))
                    /\ { k \in 1..Len(info.allRecordsBasicInfo) :
                           info.allRecordsBasicInfo[k].isSelected } = {last}
                    /\ Resp(r).status = 200
                    /\ Resp(r).body.employeeNumber = p.employeeNumber
                    /\ Resp(r).body.companyCode = p.companyCode

C4_Witness ==
  \E r \in DOMAIN pc :
    /\ Done(r) /\ Len(userRecords[r]) = 4
    /\ ActivePositions(userRecords[r]) = {2, 3}
    /\ userRecords[r][2].companyCode # userRecords[r][3].companyCode
    /\ primaryRecord[r] # <<>> /\ primaryRecord[r][1].index = 3

\* C5: at least one identity record was resolved and none is active: the
\* answer is 404, success false, error "No active employee records found" and
\* totalRecords is the number of resolved records.
C5_NoActiveRecord ==
  \A r \in DOMAIN pc :
    (Done(r) /\ userRecords[r] # <<>> /\ ActivePositions(userRecords[r]) = {})
      => /\ Resp(r).status = 404
         /\ Resp(r).body.success = FALSE
         /\ Resp(r).body.error = "No active employee records found"
         /\ Resp(r).body.totalRecords = Len(userRecords[r])
         /\ primaryRecord[r] = <<>>

C5_Witness ==
  \E r \in DOMAIN pc :
    /\ Done(r) /\ Len(userRecords[r]) = 1
    /\ userRecords[r][1].employmentDetails # <<>>
    /\ userRecords[r][1].employmentDetails[1].employmentStatus = "T"
    /\ Resp(r).status = 404 /\ Resp(r).body.totalRecords = 1

\* C6: the identity lookup resolves no record (also when the identity call
\* fails at HTTP or transport level): the answer is 404, success false, error
\* "User not found"; no employment call is made and no canonical record is
\* produced.
C6_UserNotFound ==
  \A r \in DOMAIN pc :
    (/\ Made(r, "sso")
     /\ \/ userRecords[r] = <<>>
        \/ backend.sso[req[r].email][1].http # "ok")
      => /\ ~Made(r, "employment")
         /\ primaryRecord[r] = <<>>
         /\ Done(r) => /\ Resp(r).status = 404
                       /\ Resp(r).body.success = FALSE
                       /\ Resp(r).body.error = "User not found"

C6_Witness ==
  \E r \in DOMAIN pc :
    /\ Done(r) /\ Made(r, "sso")
    /\ backend.sso[req[r].email][1].http = "error"
    /\ backend.sso[req[r].email][1].entries # <<>>
    /\ Resp(r).status = 404 /\ Resp(r).body.error = "User not found"

\* C7: a request with a valid API key and an email, while one of customer
\* key, user key, username, password or base URL is missing: the answer is
\* 500 and no outbound call is made.
C7_MissingConfiguration ==
  \A r \in DOMAIN pc :
    (/\ ValidKeyAndEmail(req[r], env)
     /\ AllVars \ env # {})
      => /\ calls[r] = <<>>
         /\ Done(r) => Resp(r).status = 500

C7_Witness ==
  \E r \in DOMAIN pc :
    /\ Done(r) /\ ValidKeyAndEmail(req[r], env)
    /\ env = AllVars \ {"UKG_BASE_URL"}
    /\ Resp(r).status = 500 /\ calls[r] = <<>>

\* C8: a request whose API key (X-API-Key header or bearer token) is missing
\* or differs from the configured worker key is answered 401 and makes no
\* outbound call, whatever its email, debug flag and configuration.
C8_ApiKeyGate ==
  \A r \in DOMAIN pc :
    ~CarriesWorkerKey(req[r], env)
      => /\ calls[r] = <<>>
         /\ Done(r) => Resp(r).status = 401

C8_Witness ==
  \E r \in DOMAIN pc :
    /\ Done(r) /\ env = AllVars
    /\ req[r].xApiKey = "bad-key" /\ ~req[r].authorization.present
    /\ req[r].email \in Emails /\ req[r].method = "GET"
    /\ Resp(r).status = 401 /\ calls[r] = <<>>

\* C9: the response for a found record carries the raw upstream payloads
\* (raw SSO response, raw employment details) when debug is on and none of
\* them when it is off: where the request without debug is answered with a
\* found record, the same request with debug carries both payloads.
C9_FoundCarriesRawPayloads ==
  (Done(1) /\ Done(2) /\ Resp(1).status = 200)
    => /\ DOMAIN Resp(1).body \cap
            {"rawSSOResponse", "debugEmploymentDetails", "debugAllRecords",
             "debugAllEmploymentDetails"} = {}
       /\ "rawSSOResponse" \in DOMAIN Resp(2).body
       /\ "debugEmploymentDetails" \in DOMAIN Resp(2).body

\* C10: every SSO entry matching the email is retained, in document order:
\* an answer with two entries, none of them active, is answered 404 with
\* totalRecords = 2.
C10_EveryEntryRetained ==
  \A r \in DOMAIN pc :
    (/\ Done(r) /\ Made(r, "sso")
     /\ LET doc == backend.sso[req[r].email][1]
        IN  /\ doc.http = "ok" /\ doc.hasResult /\ doc.success = "true"
            /\ doc.hasResults /\ Len(doc.entries) = 2
            /\ \A k \in 1..2 : doc.entries[k].hasEmployeeIdentifier
     /\ primaryRecord[r] = <<>>)
      => /\ Len(userRecords[r]) = 2
         /\ Resp(r).status = 404
         /\ Resp(r).body.error = "No active employee records found"
         /\ Resp(r).body.totalRecords = 2


\* the employment answer for the identity of record k of request r
EmpDocOf(r, k) ==
  backend.emp[<< userRecords[r][k].companyCode,
                 userRecords[r][k].employeeNumber >>]

\* the employment answer can be read and carries status "A", in the
\* EmploymentInformation block or elsewhere in the response
CarriesStatusA(doc) ==
  /\ doc.http = "ok" /\ doc.hasResult /\ doc.success # "false"
  /\ doc.hasResults /\ doc.hasEmploymentInformation
  /\ \/ doc.employmentStatus \in {"A", " A "}
     \/ doc.outerEmploymentStatus \in {"A", " A "}

\* C11: every request ends with exactly one response; its status is one of
\* 200, 400, 401, 404, 500 and the body has success = true exactly when the
\* status is 200.  No response exists before the handler has returned.
C11_OneResponse ==
  \A r \in DOMAIN pc :
    /\ ~Done(r) => response[r] = <<>>
    /\ Done(r) =>
         /\ Len(response[r]) = 1
         /\ Resp(r).status \in {200, 400, 401, 404, 500}
         /\ (SuccessOf(Resp(r).body) = "true") <=> (Resp(r).status = 200)

C11_Witness ==
  \E r \in DOMAIN pc :
    /\ Done(r) /\ Made(r, "sso") /\ userRecords[r] = <<>>
    /\ Resp(r).status = 404 /\ SuccessOf(Resp(r).body) = "false"

\* C12: a record is active only if an employment detail was attached to it
\* and that detail's employmentStatus is exactly "A": a record whose lookup
\* returned nothing, failed or returned another status is never selected, so
\* no 200 response is produced for it.
C12_OnlyStatusAIsSelected ==
  \A r \in DOMAIN pc :
    /\ primaryRecord[r] # <<>> =>
         LET p == primaryRecord[r][1].index
         IN  /\ userRecords[r][p].employmentDetails # <<>>
             /\ userRecords[r][p].employmentDetails[1].employmentStatus = "A"
             /\ EmpDocOf(r, p) # <<>>
             /\ CarriesStatusA(EmpDocOf(r, p)[1])
    /\ (Done(r) /\ Resp(r).status = 200) =>
         /\ primaryRecord[r] # <<>>
         /\ Resp(r).body.employmentStatus = "ACTIVE"

C12_Witness ==
  \E r \in DOMAIN pc :
    /\ Done(r) /\ Len(userRecords[r]) = 1
    /\ userRecords[r][1].employmentDetails # <<>>
    /\ userRecords[r][1].employmentDetails[1].employmentStatus = "T"
    /\ primaryRecord[r] = <<>> /\ Resp(r).status # 200


\* the employment calls of request r, in order
EmploymentCalls(r) == SelectSeq(calls[r], LAMBDA c : c.op = "employment")

\* the employment lookup fails: transport error, HTTP status not a success,
\* or a response in which no employment information can be found
FailedLookup(doc) ==
  \/ doc.http # "ok"
  \/ ~doc.hasResult \/ ~doc.hasResults \/ ~doc.hasEmploymentInformation

\* positions of the records of request r whose employment lookup failed
FailedPositions(r) ==
  { k \in 1..Len(userRecords[r]) :
      EmpDocOf(r, k) # <<>> /\ FailedLookup(EmpDocOf(r, k)[1]) }

\* C13: a failed employment lookup for one record never aborts the request:
\* the lookup is still made for every other record, in order, the failed
\* record counts as employment-unknown (never active), and the request ends
\* with 200 or 404, never 500.
C13_FailedLookupIsSoft ==
  \A r \in DOMAIN pc :
    (Done(r) /\ FailedPositions(r) # {})
      => /\ Resp(r).status \in {200, 404}
         /\ Len(EmploymentCalls(r)) = Len(userRecords[r])
         /\ \A k \in 1..Len(userRecords[r]) :
              EmploymentCalls(r)[k].id =
                << << userRecords[r][k].companyCode,
                      userRecords[r][k].employeeNumber >> >>
         /\ FailedPositions(r) \cap ActivePositions(userRecords[r]) = {}

C13_Witness ==
  \E r \in DOMAIN pc :
    /\ Done(r) /\ Len(userRecords[r]) = 2
    /\ EmpDocOf(r, 1)[1].http = "throw"
    /\ ActivePositions(userRecords[r]) = {2}
    /\ Len(EmploymentCalls(r)) = 2
    /\ Resp(r).status = 200


\* C14: the outbound calls of one request are, in this order, one login call,
\* then the identity call, made only after the login returned a token, then
\* employment calls for the resolved identities in resolution order, at most
\* one per identity; every call after the login carries the token this
\* request obtained, and no call is made twice.
C14_CallOrder ==
  \A r \in DOMAIN pc :
    LET c == calls[r]
    IN  /\ \A k \in 1..Len(c) : (c[k].op = "login") <=> (k = 1)
        /\ \A k \in 1..Len(c) : (c[k].op = "sso") <=> (k = 2)
        /\ Len(c) >= 2 =>
             /\ backend.login # <<>> /\ backend.login[1].http = "ok"
             /\ token[r] \notin {NoValue, ""}
             /\ token[r] = backend.login[1].token
        /\ \A k \in 2..Len(c) : c[k].token = token[r]
        /\ \A k \in 3..Len(c) :
             /\ c[k].op = "employment"
             /\ k - 2 <= Len(userRecords[r])
             /\ c[k].id = << << userRecords[r][k - 2].companyCode,
                               userRecords[r][k - 2].employeeNumber >> >>
        /\ \A j, k \in 3..Len(c) : j # k => c[j].id # c[k].id

C14_Witness ==
  \E r \in DOMAIN pc :
    /\ Done(r) /\ Len(calls[r]) = 3
    /\ calls[r][3].op = "employment" /\ calls[r][3].token = "tok-1"
    /\ calls[r][3].id = << << "BPML", "100624" >> >>


\* the request passes the API-key gate
ValidKey(q, e) ==
  /\ "WORKER_API_KEY" \in e
  /\ \/ q.xApiKey = WorkerKey
     \/ q.xApiKey \in {NoValue, ""} /\ q.authorization.present
                                    /\ q.authorization.cred = WorkerKey

\* the answer of the outermost catch clause
IsInternalError(resp) ==
  /\ resp.status = 500
  /\ resp.body.error = "Internal server error"
  /\ "details" \in DOMAIN resp.body /\ resp.body.details \notin {NoValue, ""}

\* C15: a failure that no branch handles (a POST body that is not valid JSON,
\* an exception while a response is built) is caught at the outermost
\* boundary and answered 500 "Internal server error" with the message text;
\* the handler is never left by an exception.
C15_UnhandledErrorIs500 ==
  \A r \in DOMAIN pc :
    /\ pc[r] \in {"start", "login", "sso", "loop", "done"}
    /\ (Done(r) /\ ValidKey(req[r], env) /\ req[r].method = "POST"
                /\ ~req[r].bodyIsJson)
         => IsInternalError(Resp(r)) /\ calls[r] = <<>>
    /\ (Done(r) /\ Resp(r).status = 500 /\ calls[r] # <<>>)
         => IsInternalError(Resp(r))

C15_Witness ==
  \E r \in DOMAIN pc :
    /\ Done(r) /\ ValidKey(req[r], env)
    /\ req[r].method = "POST" /\ ~req[r].bodyIsJson
    /\ IsInternalError(Resp(r))


\* C16: the identity lookup yields a record only when the response contains
\* a result block whose Success flag equals "true"; a response without that
\* flag, with another value, without result block or without Results block
\* yields no record.
C16_RecordOnlyOnSuccessTrue ==
  \A r \in DOMAIN pc :
    (Made(r, "sso") /\ userRecords[r] # <<>>)
      => LET doc == backend.sso[req[r].email][1]
         IN  doc.hasResult /\ doc.success = "true" /\ doc.hasResults

\* the employment answer can be read up to an EmploymentInformation block
\* that holds no employmentStatus field
BlockWithoutStatus(doc) ==
  /\ doc.http = "ok" /\ doc.hasResult /\ doc.success \in {NoValue, "true"}
  /\ doc.hasResults /\ doc.hasEmploymentInformation
  /\ doc.employmentStatus = NoValue

\* C17: the EmploymentInformation block is found and holds no employmentStatus
\* field: a detail is returned, and its employmentStatus is that of the first
\* EmploymentStatus element of the whole response; without such an element
\* the detail has no employmentStatus and the record is not active.
C17_StatusFallback ==
  \A r \in DOMAIN pc :
    \A k \in 1..Len(userRecords[r]) :
      (k < i[r] /\ EmpDocOf(r, k) # <<>> /\ BlockWithoutStatus(EmpDocOf(r, k)[1]))
        => LET doc == EmpDocOf(r, k)[1]
               record == userRecords[r][k]
           IN  /\ record.employmentDetails # <<>>
               /\ ~record.employmentDetails[1].noEmploymentInfoFound
               /\ record.employmentDetails[1].employmentStatus =
                    doc.outerEmploymentStatus
               /\ doc.outerEmploymentStatus = NoValue
                    => k \notin ActivePositions(userRecords[r])


\* C18: extraction does not depend on namespace prefixes: two blocks that
\* differ only in the prefixes of their tags (b:, another prefix, or none)
\* give the same value for every field name.
C18_PrefixInsensitive ==
  extract.applied =>
    /\ extract.value = extract.altValue
    /\ extract.ssoValue = extract.altSsoValue

\* positions of the elements of data named like the field, whatever prefix
NamedLike(data, fieldName) ==
  { k \in 1..Len(data) : FoldCase(data[k].name) = FoldCase(fieldName) }

Least(S) == CHOOSE k \in S : \A j \in S : k <= j

\* C19: several elements of the block match the field name, namespaced or
\* bare in any mix: the value is the trimmed text of the first of them in
\* document order (no value when that text is empty).
C19_FirstInDocumentOrder ==
  LET hits == NamedLike(extract.data, extract.fieldName)
  IN  (extract.applied /\ Cardinality(hits) >= 2) =>
        LET text == trim(extract.data[Least(hits)].text)
        IN  IF text = "" THEN Falsy(extract.value) /\ Falsy(extract.ssoValue)
            ELSE extract.value = text /\ extract.ssoValue = text

====
